---- MODULE Spec2Model ----
(***************************************************************************)
(* The YouTube transcript summariser of notebook.ipynb, run top to bottom: *)
(*   text = get_youtube_transcript(youtube_url)                            *)
(*   stella_embeddings.embed_documents(text)                               *)
(*   chunks = SemanticChunker(embeddings=...).split_text(text)             *)
(*   documents = [Document(page_content=chunk) for chunk in chunks]        *)
(*   output_comb = load_summarize_chain(chain_type="refine").invoke(...)   *)
(* Strings are sequences of characters.  The calls the notebook makes into *)
(* SemanticChunker.split_text and into the refine chain are modelled by    *)
(* what those calls do with the arguments the notebook passes (default     *)
(* percentile breakpoints, question/refine prompts).  The print and pprint *)
(* statements that follow an assignment bind no name a later cell reads    *)
(* and are left out.                                                       *)
(***************************************************************************)
EXTENDS Integers, Sequences, FiniteSets, TLC

VARIABLES
    pc,            \* the cell (or the point inside chain.invoke) about to run
    youtube_url,   \* the URL given to get_youtube_transcript
    fetchOutcome,  \* history: "none", "ok", "invalid_url" or "fetch_failed"
    text,          \* the notebook's `text`
    embedCalls,    \* history: number of embed_documents calls made
    distances,     \* split_text: distance between sentence i and i+1
    groups,        \* split_text: the slices of sentence dicts, one per chunk
    chunks,        \* the notebook's `chunks`
    documents,     \* the notebook's `documents`
    calls,         \* history: the predict calls made on the language model
    responses,     \* history: the responses the language model returned
    inflight,      \* number of language model calls issued and not returned
    res,           \* combine_docs: the running summary `res`
    pending,       \* combine_docs: the documents the for loop has yet to take
    output_comb,   \* the notebook's `output_comb` (its output_text)
    raised,        \* the exception that ended the run, if any
    failedAt       \* history: index of the chunk whose model call raised

vars == <<pc, youtube_url, fetchOutcome, text, embedCalls, distances, groups,
          chunks, documents, calls, responses, inflight, res, pending,
          output_comb, raised, failedAt>>

----------------------------------------------------------------------------
(* Bounds *)

MaxEntries == 3     \* entries in a fetched transcript list
MaxDist == 2        \* distances are drawn from 0..MaxDist
MaxChunks == 3      \* documents handed to the refine chain on its own

(* Program constants *)

IdLen == 11                  \* {11} in both patterns of extract_video_id
BreakpointPercentile == 95   \* SemanticChunker's default percentile threshold

\* An unbound Python name / None, kept a sequence so that it compares with strings.
None == <<"None">>
NoException == [type |-> "none"]

----------------------------------------------------------------------------
(* extract_video_id *)

IdChars == {"a", "b", "e", "o", "t", "u", "v", "y"}

IdAt(url, p) ==
    /\ p + IdLen - 1 <= Len(url)
    /\ \A k \in 0..(IdLen - 1) : url[p + k] \in IdChars

LiteralAt(url, p, lit) ==
    /\ p + Len(lit) - 1 <= Len(url)
    /\ \A k \in 1..Len(lit) : url[p + k - 1] = lit[k]

\* Positions where one of the alternatives, followed by an id, matches.
MatchStarts(url, alternatives) ==
    {p \in 1..Len(url) :
        \E k \in 1..Len(alternatives) :
            /\ LiteralAt(url, p, alternatives[k])
            /\ IdAt(url, p + Len(alternatives[k]))}

\* re.search: the leftmost match, first alternative first; group(1) is the id.
Search(url, alternatives) ==
    IF MatchStarts(url, alternatives) = {} THEN None
    ELSE LET p == CHOOSE q \in MatchStarts(url, alternatives) :
                     \A r \in MatchStarts(url, alternatives) : q <= r
             k == CHOOSE j \in 1..Len(alternatives) :
                     /\ LiteralAt(url, p, alternatives[j])
                     /\ IdAt(url, p + Len(alternatives[j]))
                     /\ \A i \in 1..(j - 1) :
                            ~(/\ LiteralAt(url, p, alternatives[i])
                              /\ IdAt(url, p + Len(alternatives[i])))
             s == p + Len(alternatives[k])
         IN  SubSeq(url, s, s + IdLen - 1)

Pattern1 == << <<"v", "=">>, <<"/">> >>
Pattern2 == << <<"y", "o", "u", "t", "u", ".", "b", "e", "/">> >>

ExtractVideoId(url) ==
    IF Search(url, Pattern1) # None THEN Search(url, Pattern1)
    ELSE Search(url, Pattern2)

AnId == [k \in 1..IdLen |-> "a"]

URLS == { <<"/", "w", "?", "v", "=">> \o AnId \o <<"&", "a", "b">>,
          <<"y", "o", "u", "t", "u", ".", "b", "e", "/">> \o AnId,
          <<"/", "w", "?", "v", "=">> \o SubSeq(AnId, 1, IdLen - 1),
          <<"/", "a", ".", "a">>,
          <<>> }

----------------------------------------------------------------------------
(* get_youtube_transcript *)

EntryTexts == { <<>>, <<"w">>, <<"w", ".">> }

TranscriptLists == UNION {[1..n -> EntryTexts] : n \in 0..MaxEntries}

RECURSIVE JoinWith(_, _)
\* sep.join(parts)
JoinWith(sep, parts) ==
    IF parts = <<>> THEN <<>>
    ELSE IF Len(parts) = 1 THEN parts[1]
    ELSE parts[1] \o sep \o JoinWith(sep, Tail(parts))

\* f"Error: {str(e)}"
ErrorText(message) == <<"E", "r", "r", "o", "r", ":", " ">> \o message

InvalidUrlMessage == <<"I", "n", "v", "a", "l", "i", "d", " ", "U", "R", "L">>
ApiMessages == { <<"d", "i", "s", "a", "b", "l", "e", "d">> }

----------------------------------------------------------------------------
(* SemanticChunker.split_text *)

Whitespace == {" "}
SentenceEnd == {".", "?", "!"}

RECURSIVE SkipWhitespace(_, _)
\* the first position at or after p that holds no whitespace
SkipWhitespace(s, p) ==
    IF p <= Len(s) /\ s[p] \in Whitespace THEN SkipWhitespace(s, p + 1) ELSE p

RECURSIVE SplitFrom(_, _, _)
SplitFrom(s, p, cur) ==
    IF p > Len(s) THEN <<cur>>
    ELSE IF s[p] \in Whitespace /\ p > 1 /\ s[p - 1] \in SentenceEnd
         THEN <<cur>> \o SplitFrom(s, SkipWhitespace(s, p), <<>>)
         ELSE SplitFrom(s, p + 1, Append(cur, s[p]))

\* re.split(r"(?<=[.?!])\s+", text)
SplitSentences(s) == SplitFrom(s, 1, <<>>)

\* [{"sentence": x, "index": i} for i, x in enumerate(sentence_list)]
SentenceDicts(list) ==
    [k \in 1..Len(list) |-> [sentence |-> list[k], index |-> k - 1]]

RECURSIVE Insert(_, _)
Insert(x, sorted) ==
    IF sorted = <<>> THEN <<x>>
    ELSE IF x <= Head(sorted) THEN <<x>> \o sorted
    ELSE <<Head(sorted)>> \o Insert(x, Tail(sorted))

RECURSIVE Sorted(_)
Sorted(s) == IF s = <<>> THEN <<>> ELSE Insert(Head(s), Sorted(Tail(s)))

\* 100 times np.percentile(dist, BreakpointPercentile), linear interpolation
Threshold100(dist) ==
    LET a    == Sorted(dist)
        pos  == BreakpointPercentile * (Len(dist) - 1)
        lo   == pos \div 100
        frac == pos % 100
        hi   == IF lo + 1 < Len(dist) THEN lo + 1 ELSE lo
    IN  100 * a[lo + 1] + frac * (a[hi + 1] - a[lo + 1])

ExceedsOrEquals(x, threshold100) == 100 * x >= threshold100

\* x > breakpoint_distance_threshold
Exceeds(x, threshold100) == 100 * x > threshold100

RECURSIVE IndicesFrom(_, _)
IndicesFrom(dist, i) ==
    IF i >= Len(dist) THEN <<>>
    ELSE IF Exceeds(dist[i + 1], Threshold100(dist))
         THEN <<i>> \o IndicesFrom(dist, i + 1)
         ELSE IndicesFrom(dist, i + 1)

\* [i for i, x in enumerate(breakpoint_array) if x > threshold]
IndicesAboveThresh(dist) == IndicesFrom(dist, 0)

\* sentences[a : b] of Python
Slice(s, a, b) == SubSeq(s, a + 1, IF b < Len(s) THEN b ELSE Len(s))

NextStartOverlapping(index) == index

\* start_index = index + 1
NextStart(index) == index + 1

RECURSIVE BuildGroups(_, _, _)
\* the loop over indices_above_thresh, then the last group
BuildGroups(sentences, indices, start_index) ==
    IF indices = <<>>
    THEN IF start_index < Len(sentences)
         THEN << Slice(sentences, start_index, Len(sentences)) >>
         ELSE <<>>
    ELSE << Slice(sentences, start_index, Head(indices) + 1) >>
         \o BuildGroups(sentences, Tail(indices), NextStart(Head(indices)))

\* " ".join([d["sentence"] for d in group])
CombinedText(group) ==
    JoinWith(<<" ">>, [k \in 1..Len(group) |-> group[k].sentence])

\* Document(page_content=chunk)
Document(chunk) == [page_content |-> chunk]

DistanceArrays(n) == [1..n -> 0..MaxDist]

----------------------------------------------------------------------------
(* The refine chain built by load_summarize_chain(chain_type="refine") *)

Responses == { <<"s">>, <<"t">> }

\* question_template.format(text=...)
RenderQuestion(t) == <<"Write a concise summary: ">> \o t \o <<" CONCISE SUMMARY:">>

\* refine_template.format(existing_answer=..., text=...)
RenderRefine(existing_answer, t) ==
    <<"existing summary: ">> \o existing_answer \o <<" more context: ">> \o t
        \o <<" refine the original summary">>

RefineDocsAll(docs) == docs

\* docs[1:], what the for loop of combine_docs runs over
RefineDocs(docs) == Tail(docs)

LastDoc(docs) == docs[Len(docs)]

\* the document the for loop takes next
NextDoc(docs) == Head(docs)

MergedSummary(old, response) == old \o response

\* res = ...predict(...)
NewSummary(old, response) == response

PcAfterModelErrorSkip == "loop"

\* an exception of predict is not caught by combine_docs or by the notebook
PcAfterModelError == "failed"

PcAfterEmbedErrorContinue == "invoke"

\* an exception of embed_documents is not caught by split_text or by the notebook
PcAfterEmbedError == "failed"

----------------------------------------------------------------------------
(* The notebook, cell by cell *)

Init ==
    /\ pc = "fetch"
    /\ youtube_url \in URLS
    /\ fetchOutcome = "none"
    /\ text = None
    /\ embedCalls = 0
    /\ distances = <<>>
    /\ groups = <<>>
    /\ chunks = <<>>
    /\ documents = <<>>
    /\ calls = <<>>
    /\ responses = <<>>
    /\ inflight = 0
    /\ res = None
    /\ pending = <<>>
    /\ output_comb = None
    /\ raised = NoException
    /\ failedAt = 0

\* text = get_youtube_transcript(youtube_url), the transcript is fetched
GetTranscript ==
    /\ pc = "fetch"
    /\ ExtractVideoId(youtube_url) # None
    /\ \E transcript_list \in TranscriptLists :
           text' = JoinWith(<<" ">>, transcript_list)
    /\ fetchOutcome' = "ok"
    /\ pc' = "embed"
    /\ UNCHANGED <<youtube_url, embedCalls, distances, groups, chunks, documents,
                   calls, responses, inflight, res, pending, output_comb, raised,
                   failedAt>>

\* text = get_youtube_transcript(youtube_url), no video id: ValueError is caught
GetTranscriptInvalidUrl ==
    /\ pc = "fetch"
    /\ ExtractVideoId(youtube_url) = None
    /\ text' = ErrorText(InvalidUrlMessage)
    /\ fetchOutcome' = "invalid_url"
    /\ pc' = "embed"
    /\ UNCHANGED <<youtube_url, embedCalls, distances, groups, chunks, documents,
                   calls, responses, inflight, res, pending, output_comb, raised,
                   failedAt>>

\* text = get_youtube_transcript(youtube_url), get_transcript raises: caught
GetTranscriptFetchFails ==
    /\ pc = "fetch"
    /\ ExtractVideoId(youtube_url) # None
    /\ \E message \in ApiMessages : text' = ErrorText(message)
    /\ fetchOutcome' = "fetch_failed"
    /\ pc' = "embed"
    /\ UNCHANGED <<youtube_url, embedCalls, distances, groups, chunks, documents,
                   calls, responses, inflight, res, pending, output_comb, raised,
                   failedAt>>

\* document_embeddings = stella_embeddings.embed_documents(text)
EmbedDocuments ==
    /\ pc = "embed"
    /\ embedCalls' = embedCalls + 1
    /\ pc' = "split"
    /\ UNCHANGED <<youtube_url, fetchOutcome, text, distances, groups, chunks,
                   documents, calls, responses, inflight, res, pending,
                   output_comb, raised, failedAt>>

\* stella_embeddings.embed_documents(text) raises
EmbedDocumentsRaises ==
    /\ pc = "embed"
    /\ embedCalls' = embedCalls + 1
    /\ raised' = [type |-> "EmbeddingError"]
    /\ pc' = PcAfterEmbedError
    /\ UNCHANGED <<youtube_url, fetchOutcome, text, distances, groups, chunks,
                   documents, calls, responses, inflight, res, pending,
                   output_comb, failedAt>>

\* chunks = chunker.split_text(text): one sentence, returned as it is
SplitTextSingle ==
    /\ pc = "split"
    /\ Len(SplitSentences(text)) = 1
    /\ groups' = << SentenceDicts(SplitSentences(text)) >>
    /\ chunks' = SplitSentences(text)
    /\ documents' = [k \in 1..Len(chunks') |-> Document(chunks'[k])]
    /\ pc' = "invoke"
    /\ UNCHANGED <<youtube_url, fetchOutcome, text, embedCalls, distances, calls,
                   responses, inflight, res, pending, output_comb, raised,
                   failedAt>>

\* chunks = chunker.split_text(text): sentences embedded, sliced at the breakpoints
SplitText ==
    /\ pc = "split"
    /\ Len(SplitSentences(text)) > 1
    /\ embedCalls' = embedCalls + 1
    /\ \E dist \in DistanceArrays(Len(SplitSentences(text)) - 1) :
           /\ distances' = dist
           /\ groups' = BuildGroups(SentenceDicts(SplitSentences(text)),
                                    IndicesAboveThresh(dist), 0)
    /\ chunks' = [k \in 1..Len(groups') |-> CombinedText(groups'[k])]
    /\ documents' = [k \in 1..Len(chunks') |-> Document(chunks'[k])]
    /\ pc' = "invoke"
    /\ UNCHANGED <<youtube_url, fetchOutcome, text, calls, responses, inflight,
                   res, pending, output_comb, raised, failedAt>>

\* chunks = chunker.split_text(text): embed_documents raises inside split_text
SplitTextEmbedRaises ==
    /\ pc = "split"
    /\ Len(SplitSentences(text)) > 1
    /\ embedCalls' = embedCalls + 1
    /\ raised' = [type |-> "EmbeddingError"]
    /\ pc' = PcAfterEmbedError
    /\ UNCHANGED <<youtube_url, fetchOutcome, text, distances, groups, chunks,
                   documents, calls, responses, inflight, res, pending,
                   output_comb, failedAt>>

\* chain.invoke(documents): combine_docs calls the initial chain on docs[0]
InvokeInitial ==
    /\ pc = "invoke"
    /\ calls' = Append(calls,
                       [template |-> "question",
                        existing_answer |-> None,
                        text |-> documents[1].page_content,
                        prompt |-> RenderQuestion(documents[1].page_content)])
    /\ pending' = RefineDocs(documents)
    /\ inflight' = inflight + 1
    /\ pc' = "await"
    /\ UNCHANGED <<youtube_url, fetchOutcome, text, embedCalls, distances, groups,
                   chunks, documents, responses, res, output_comb, raised,
                   failedAt>>

\* a predict call returns: res is assigned
ModelReturns ==
    /\ pc = "await"
    /\ \E response \in Responses :
           /\ responses' = Append(responses, response)
           /\ res' = NewSummary(res, response)
    /\ inflight' = inflight - 1
    /\ pc' = "loop"
    /\ UNCHANGED <<youtube_url, fetchOutcome, text, embedCalls, distances, groups,
                   chunks, documents, calls, pending, output_comb, raised,
                   failedAt>>

\* a predict call raises: the exception leaves combine_docs and chain.invoke
ModelRaises ==
    /\ pc = "await"
    /\ inflight' = inflight - 1
    /\ failedAt' = Len(calls)
    /\ raised' = [type |-> "ModelError"]
    /\ res' = None
    /\ pc' = PcAfterModelError
    /\ UNCHANGED <<youtube_url, fetchOutcome, text, embedCalls, distances, groups,
                   chunks, documents, calls, responses, pending, output_comb>>

\* for doc in docs[1:]: the refine chain is called on res and the next document
RefineStep ==
    /\ pc = "loop"
    /\ pending # <<>>
    /\ calls' = Append(calls,
                       [template |-> "refine",
                        existing_answer |-> res,
                        text |-> NextDoc(pending).page_content,
                        prompt |-> RenderRefine(res, NextDoc(pending).page_content)])
    /\ pending' = Tail(pending)
    /\ inflight' = inflight + 1
    /\ pc' = "await"
    /\ UNCHANGED <<youtube_url, fetchOutcome, text, embedCalls, distances, groups,
                   chunks, documents, responses, res, output_comb, raised,
                   failedAt>>

\* the loop is over: output_comb = {"output_text": res, ...}
Finish ==
    /\ pc = "loop"
    /\ pending = <<>>
    /\ output_comb' = res
    /\ pc' = "done"
    /\ UNCHANGED <<youtube_url, fetchOutcome, text, embedCalls, distances, groups,
                   chunks, documents, calls, responses, inflight, res, pending,
                   raised, failedAt>>

Next ==
    \/ GetTranscript
    \/ GetTranscriptInvalidUrl
    \/ GetTranscriptFetchFails
    \/ EmbedDocuments
    \/ EmbedDocumentsRaises
    \/ SplitTextSingle
    \/ SplitText
    \/ SplitTextEmbedRaises
    \/ InvokeInitial
    \/ ModelReturns
    \/ ModelRaises
    \/ RefineStep
    \/ Finish

Spec == Init /\ [][Next]_vars

----------------------------------------------------------------------------
(* The refine chain on its own, over any list of one to MaxChunks documents *)

ChunkTexts == { <<"w", ".">>, <<"w", ".", " ", "w", ".">> }

DocumentLists == UNION {[1..n -> ChunkTexts] : n \in 1..MaxChunks}

InitRefine ==
    /\ pc = "invoke"
    /\ youtube_url \in {u \in URLS : ExtractVideoId(u) # None}
    /\ fetchOutcome = "ok"
    /\ \E list \in DocumentLists :
           /\ chunks = list
           /\ documents = [k \in 1..Len(list) |-> Document(list[k])]
           /\ text = JoinWith(<<" ">>, list)
    /\ embedCalls = 2
    /\ distances = <<>>
    /\ groups = <<>>
    /\ calls = <<>>
    /\ responses = <<>>
    /\ inflight = 0
    /\ res = None
    /\ pending = <<>>
    /\ output_comb = None
    /\ raised = NoException
    /\ failedAt = 0

NextRefine ==
    \/ InvokeInitial
    \/ ModelReturns
    \/ ModelRaises
    \/ RefineStep
    \/ Finish

SpecRefine == InitRefine /\ [][NextRefine]_vars

----------------------------------------------------------------------------
(* Properties *)

QuestionCalls == {i \in DOMAIN calls : calls[i].template = "question"}
RefineCalls == {i \in DOMAIN calls : calls[i].template = "refine"}

\* C1: the refine chain never makes more than one call per chunk, and a run
\* that succeeds over N chunks has made exactly N calls: one with the question
\* (initial) template, first, and N-1 with the refine template (none when N = 1).
C1_ExactlyNCalls ==
    /\ Len(calls) <= Len(documents)
    /\ Cardinality(QuestionCalls) <= 1
    /\ pc = "done" =>
           /\ Len(calls) = Len(documents)
           /\ QuestionCalls = {1}
           /\ Cardinality(RefineCalls) = Len(documents) - 1

C1_Witness ==
    /\ pc = "done"
    /\ Len(documents) = 3
    /\ Cardinality(RefineCalls) = 2

\* C2: the i-th model call is made for chunk i, it is issued only after the
\* (i-1)-th call has returned, and at most one call is in flight at a time.
C2_SequentialInOrder ==
    /\ inflight \in {0, 1}
    /\ \A i \in DOMAIN calls :
           /\ i <= Len(documents)
           /\ calls[i].text = documents[i].page_content
    /\ Len(responses) >= Len(calls) - 1
    /\ inflight = 1 => Len(responses) = Len(calls) - 1

C2_Witness ==
    /\ Len(calls) = 3
    /\ inflight = 1
    /\ documents[2] # documents[3]
    /\ documents[1] # documents[2]

C4_EmbeddingFailureStops ==
    raised.type = "EmbeddingError" =>
        /\ pc = "failed"
        /\ chunks = <<>>
        /\ documents = <<>>
        /\ groups = <<>>
        /\ calls = <<>>
        /\ inflight = 0
        /\ output_comb = None

C4_Witness ==
    /\ raised.type = "EmbeddingError"
    /\ embedCalls = 2
    /\ Len(SplitSentences(text)) > 1

\* C5: when get_youtube_transcript found no transcript (invalid URL or failed
\* fetch), nothing is embedded, nothing is segmented and no model call is made.
C5_NoTranscriptNoCore ==
    fetchOutcome \in {"invalid_url", "fetch_failed"} =>
        /\ embedCalls = 0
        /\ chunks = <<>>
        /\ calls = <<>>

IsBlank(s) == \A i \in DOMAIN s : s[i] \in Whitespace

\* C6: for an empty or whitespace-only transcript no provider is called:
\* the embedding and the model call counts stay zero.
C6_BlankTranscriptNoCalls ==
    (fetchOutcome = "ok" /\ IsBlank(text)) =>
        /\ embedCalls = 0
        /\ calls = <<>>

RECURSIVE Flatten(_)
Flatten(seqs) == IF seqs = <<>> THEN <<>> ELSE Head(seqs) \o Flatten(Tail(seqs))

Boundaries == {groups[k][Len(groups[k])].index : k \in 1..(Len(groups) - 1)}

\* C8: a chunk boundary falls after sentence i exactly when the distance
\* between sentences i and i+1 is above the threshold; one sentence gives one
\* chunk, and so does a transcript in which no distance is above the threshold,
\* that chunk holding all the sentences.
C8_BoundariesAtBreakpoints ==
    groups # <<>> =>
        /\ Boundaries = {i \in 0..(Len(distances) - 1) :
                            100 * distances[i + 1] > Threshold100(distances)}
        /\ Len(SplitSentences(text)) = 1 => Len(chunks) = 1 /\ chunks[1] = text
        /\ (\A i \in DOMAIN distances :
                100 * distances[i] <= Threshold100(distances)) =>
               /\ Len(chunks) = 1
               /\ chunks[1] = JoinWith(<<" ">>, SplitSentences(text))

C8_Witness ==
    /\ Len(distances) = 2
    /\ distances[1] > distances[2]
    /\ Len(groups) = 2
    /\ Boundaries = {0}

\* C9: the running summary is the response of the latest call, the refine
\* prompt of call i+1 is rendered from the response of call i and the text of
\* chunk i+1, and the summary returned is the response of the last call, after
\* which no call is made.
C9_SummaryReplacedAndReturned ==
    /\ (pc \in {"await", "loop", "done"} /\ responses # <<>>) =>
           res = responses[Len(responses)]
    /\ \A i \in DOMAIN calls :
           i > 1 =>
               /\ calls[i].template = "refine"
               /\ calls[i].existing_answer = responses[i - 1]
               /\ i <= Len(documents)
               /\ calls[i].prompt =
                      RenderRefine(responses[i - 1], documents[i].page_content)
    /\ pc = "done" =>
           /\ Len(responses) = Len(documents)
           /\ output_comb = responses[Len(documents)]
           /\ Len(calls) = Len(documents)
           /\ inflight = 0

C9_Witness ==
    /\ pc = "done"
    /\ Len(documents) = 3
    /\ responses[1] # responses[2]
    /\ responses[2] # responses[3]
    /\ output_comb = responses[3]

====
